---- MODULE Spec2Model ----
(***************************************************************************)
(* A model of the UCW raw MCP server: the capture engine                   *)
(* (ucw/server/capture.py), the stdio transport (ucw/server/transport.py), *)
(* the JSON-RPC helpers (ucw/server/protocol.py), the method router        *)
(* (ucw/server/router.py) and the orchestrator (ucw/server/server.py).     *)
(*                                                                         *)
(* Two specifications are given.  SpecCapture drives a freshly constructed *)
(* CaptureEngine and a transport bound to it through arbitrary sequences   *)
(* of capture / read_message / write_message calls, the way the unit tests *)
(* do.  Spec is RawMCPServer.run(): the read loop, _handle_message, the    *)
(* background database initialisation and shutdown.                        *)
(***************************************************************************)
EXTENDS Integers, Sequences, FiniteSets, TLC

\* Number of engine / transport calls made in a SpecCapture behaviour.
MaxCaptures == 4
\* Number of input lines the peer sends before EOF in a Spec behaviour.
MaxLines == 2
\* Number of termination signals delivered in a Spec behaviour.
MaxSignals == 1
\* Number of shutdown() calls made in a Spec behaviour.
MaxShutdowns == 3

(***************************************************************************)
(* Python values.  A JSON id is a number or a string; both are kept with   *)
(* their type so that 1 and "1" are different values with the same str().  *)
(***************************************************************************)
None == [t |-> "none", v |-> "None"]
PyInt(s) == [t |-> "int", v |-> s]
PyStr(s) == [t |-> "str", v |-> s]

\* Python's str(): the text of the value, as a string.
str(x) == PyStr(x.v)

\* uuid.uuid4().hex[:16]: a fresh identifier per constructed event.
EventIds == << "e1", "e2", "e3", "e4", "e5", "e6", "e7", "e8", "e9", "e10", "e11", "e12" >>

(***************************************************************************)
(* Decoded JSON values.  isdict = FALSE stands for any decoded value that  *)
(* is not a JSON object (an array, a number, a string).  For an object,    *)
(* has_id / has_method say whether the key is present; body is the other   *)
(* top-level members ("result", "error", "result_error" for both, or       *)
(* "none"); name is params.name of                                         *)
(* a tools/call ("" when missing or empty); code is error.code and payload *)
(* tags the result built by the router.  params is the kind of the         *)
(* "params" member: "map" (an object), "map_v1999" (an object declaring    *)
(* another protocolVersion and clientInfo), "absent", or "nonmap" (a list, *)
(* a string, null).                                                        *)
(***************************************************************************)
Dict(jsonrpc, has_id, id, has_method, method, body, name, code, payload) ==
    [isdict |-> TRUE, jsonrpc |-> jsonrpc, has_id |-> has_id, id |-> id,
     has_method |-> has_method, method |-> method, body |-> body,
     name |-> name, code |-> code, payload |-> payload, params |-> "map"]

\* The frame f with its "params" member replaced.
WithParams(f, params) == [f EXCEPT !.params = params]

\* msg.get("params", {}) supports .get(...): it is a map.
ParamsIsMap(msg) == msg.params # "nonmap"

\* {}
EmptyDict == Dict(FALSE, FALSE, None, FALSE, "", "none", "", 0, "")

\* A decoded value that is not an object, e.g. [1, 2].
NonDict == [EmptyDict EXCEPT !.isdict = FALSE]

\* parsed.get("id")
GetId(parsed) == IF parsed.has_id THEN parsed.id ELSE None

\* parsed.get("method", "")
GetMethod(parsed) == IF parsed.has_method THEN parsed.method ELSE ""

(***************************************************************************)
(* Wire lines.  json.dumps(message) + "\n" gives a "json" line holding the *)
(* message; json.loads gives the message back for a "json" line, raises    *)
(* JSONDecodeError for a "badjson" line and UnicodeDecodeError (not a      *)
(* JSONDecodeError) for a "badutf8" line; "eof" is the empty read.         *)
(***************************************************************************)
Line(kind, f) == [kind |-> kind, f |-> f]

\* json.dumps(message, separators=(",", ":")) + "\n", encoded.
Encode(message) == Line("json", message)

(***************************************************************************)
(* protocol.py                                                             *)
(***************************************************************************)
PARSE_ERROR == -32700
INVALID_REQUEST == -32600
METHOD_NOT_FOUND == -32601
INVALID_PARAMS == -32602
INTERNAL_ERROR == -32603

\* An implementation slip: the version tag is not looked at.
validate_any_version(msg) ==
    IF ~msg.isdict THEN "raise"
    ELSE IF msg.has_method THEN (IF msg.has_id THEN "request" ELSE "notification")
    ELSE IF msg.body \in {"result", "result_error"} /\ msg.has_id THEN "response"
    ELSE IF msg.body \in {"error", "result_error"} /\ msg.has_id THEN "error"
    ELSE "raise"

\* validate_message: the message type, or "raise" (ProtocolError(INVALID_REQUEST)).
validate_message(msg) ==
    IF ~msg.isdict THEN "raise"
    ELSE IF ~msg.jsonrpc THEN "raise"
    ELSE IF msg.has_method THEN (IF msg.has_id THEN "request" ELSE "notification")
    ELSE IF msg.body \in {"result", "result_error"} /\ msg.has_id THEN "response"
    ELSE IF msg.body \in {"error", "result_error"} /\ msg.has_id THEN "error"
    ELSE "raise"

\* An implementation slip: a null id is left out of the frame.
make_response_without_null(request_id, result) ==
    Dict(TRUE, request_id # None, request_id, FALSE, "", "result", "", 0, result)

\* make_response(request_id, result)
make_response(request_id, result) ==
    Dict(TRUE, TRUE, request_id, FALSE, "", "result", "", 0, result)

\* make_error(request_id, code, message)
make_error(request_id, code) ==
    Dict(TRUE, TRUE, request_id, FALSE, "", "error", "", code, "")

(***************************************************************************)
(* capture.py                                                              *)
(***************************************************************************)
\* CaptureEvent.__init__ for a dict `parsed`; n is the number of the event.
CaptureEvent(n, direction, stage, raw_bytes, parsed, parent_protocol_id, error) ==
    [event_id |-> PyStr(EventIds[n]),
     direction |-> direction,
     stage |-> stage,
     raw_bytes |-> raw_bytes,
     method |-> GetMethod(parsed),
     request_id |-> GetId(parsed),
     parent_protocol_id |-> parent_protocol_id,
     turn |-> 0,
     error |-> error]

\* A set_db_sink that also starts a new lineage map.
set_db_sink_new_map(eng) == [eng EXCEPT !.db_sink = TRUE, !.request_map = << >>]

\* CaptureEngine.set_db_sink
set_db_sink(eng) == [eng EXCEPT !.db_sink = TRUE]

\* CaptureEngine.__init__
NewEngine ==
    [events |-> << >>,
     turn_counter |-> 0,
     request_map |-> << >>,
     ucw_bridge |-> FALSE,
     db_sink |-> FALSE,
     event_callbacks |-> 0,
     stats |-> [in_received |-> 0, out_sent |-> 0, total |-> 0]]

\* The key of the lineage map: str(event.request_id).
LineageKey(request_id) == str(request_id).v

\* capture.py line 150: the inbound frames that open a turn.
TracksTurn(direction, event) == direction = "in" /\ event.request_id # None

\* d[key] = value on a dict kept as a function on its keys.
DictPut(d, key, value) ==
    [k \in (DOMAIN d) \cup {key} |-> IF k = key THEN value ELSE d[k]]

\* An implementation slip: the parent is the latest tracked request.
LookupParentLatest(request_map, events, request_id) ==
    LET ins == { i \in 1..Len(events) :
                   events[i].direction = "in" /\ events[i].request_id # None }
    IN  IF ins = {} THEN None
        ELSE events[CHOOSE i \in ins : \A j \in ins : j <= i]

\* self._request_map.get(str(event.request_id)): the event, or None.
LookupParent(request_map, events, request_id) ==
    IF LineageKey(request_id) \in DOMAIN request_map
    THEN request_map[LineageKey(request_id)]
    ELSE None

\* self._stats[f"{direction}_{stage}"] += 1; self._stats["total"] += 1
BumpStats(stats, direction) ==
    IF direction = "in"
    THEN [stats EXCEPT !.in_received = @ + 1, !.total = @ + 1]
    ELSE [stats EXCEPT !.out_sent = @ + 1, !.total = @ + 1]

\* No plugin raises.
NoFailure == [bridge |-> FALSE, sink |-> FALSE, callbacks |-> {}]

\* The plugins that can raise during one capture: the bridge, the sink, each
\* callback by its position in _event_callbacks.
Failures(event_callbacks) ==
    [bridge : BOOLEAN, sink : BOOLEAN, callbacks : SUBSET (1..event_callbacks)]

\* A capture that stores the event whether or not a sink is attached.
StoreEventUnattached(db_sink, event_id, fail) ==
    IF ~fail.sink THEN << event_id >> ELSE << >>

\* capture.py 173-178: the rows the sink stores.  A store_event that raises
\* stores nothing and its exception is logged.
StoreEvent(db_sink, event_id, fail) ==
    IF db_sink /\ ~fail.sink THEN << event_id >> ELSE << >>

\* A notification loop inside one try: it ends at the first callback that
\* raises.
InvokeUntilFailure(event_callbacks, event_id, fail) ==
    LET bad == { i \in 1..event_callbacks : i \in fail.callbacks }
        n == IF bad = {} THEN event_callbacks
             ELSE CHOOSE i \in bad : \A j \in bad : i <= j
    IN  [i \in 1..n |-> << i, event_id >>]

\* capture.py 180-185: the (callback, event id) invocations, in registration
\* order.  Each callback is awaited inside its own try / except Exception,
\* so one that raises does not end the loop.
InvokeCallbacks(event_callbacks, event_id, fail) ==
    [i \in 1..event_callbacks |-> << i, event_id >>]

\* The kinds of plugin that raised during one capture of a dict.
Failed(eng, fail) ==
    (IF eng.ucw_bridge /\ fail.bridge THEN {"bridge"} ELSE {})
        \cup (IF eng.db_sink /\ fail.sink THEN {"sink"} ELSE {})
        \cup (IF (1..eng.event_callbacks) \cap fail.callbacks # {}
              THEN {"callback"} ELSE {})

(***************************************************************************)
(* CaptureEngine.capture.  fail is the plugins that raise during this call *)
(* (a member of Failures).  The result holds the engine afterwards,        *)
(* whether an exception left capture, the event ids the sink stored, the   *)
(* (callback, event id) pairs of the callbacks invoked and the kinds of    *)
(* plugin that raised.                                                     *)
(***************************************************************************)
capture(eng, raw_bytes, parsed, direction, parent_protocol_id, error, fail) ==
    IF ~parsed.isdict
    THEN \* parsed.get raises AttributeError in CaptureEvent.__init__
         [eng |-> eng, raised |-> TRUE, stored |-> << >>, notified |-> << >>,
          failed |-> {}]
    ELSE
    LET stage == IF direction = "in" THEN "received" ELSE "sent"
        created == CaptureEvent(Len(eng.events) + 1, direction, stage,
                                raw_bytes, parsed, parent_protocol_id, error)
        opens == TracksTurn(direction, created)
        turned == IF opens
                  THEN [created EXCEPT !.turn = eng.turn_counter + 1]
                  ELSE created
        request_map == IF opens
                       THEN DictPut(eng.request_map, LineageKey(turned.request_id), turned)
                       ELSE eng.request_map
        parent == IF direction = "out" /\ turned.request_id # None
                  THEN LookupParent(request_map, eng.events, turned.request_id)
                  ELSE None
        linked == IF parent # None
                  THEN [turned EXCEPT !.parent_protocol_id = parent.event_id,
                                      !.turn = parent.turn]
                  ELSE turned
        \* enrich(event) attaches the semantic layers, which are not
        \* modelled; its exceptions are caught and logged
        event == linked
    IN  [eng |-> [eng EXCEPT !.events = Append(@, event),
                             !.turn_counter = IF opens THEN @ + 1 ELSE @,
                             !.request_map = request_map,
                             !.stats = BumpStats(@, direction)],
         raised |-> FALSE,
         \* store_event and the callbacks run inside try / except Exception
         stored |-> StoreEvent(eng.db_sink, event.event_id, fail),
         notified |-> InvokeCallbacks(eng.event_callbacks, event.event_id, fail),
         failed |-> Failed(eng, fail)]

(***************************************************************************)
(* transport.py                                                            *)
(***************************************************************************)
\* The one element of a singleton set.  { F(x) : x \in {e} } evaluates e once.
The(S) == CHOOSE x \in S : TRUE

\* A read_message that returns the decoded message without calling
\* on_capture.
read_message_uncaptured(eng, line, fail) ==
    [eng |-> eng,
     result |-> IF line.kind = "json" THEN line.f ELSE None,
     capture_raised |-> FALSE, stored |-> << >>, notified |-> << >>]

\* RawStdioTransport.read_message on one line.  result is None or the
\* decoded message; capture_raised says whether on_capture raised.
read_message(eng, line, fail) ==
    IF line.kind = "eof"
    THEN [eng |-> eng, result |-> None, capture_raised |-> FALSE,
          stored |-> << >>, notified |-> << >>]
    ELSE IF line.kind = "badutf8"
    THEN \* UnicodeDecodeError: caught by the outer except Exception
         [eng |-> eng, result |-> None, capture_raised |-> FALSE,
          stored |-> << >>, notified |-> << >>]
    ELSE IF line.kind = "badjson"
    THEN The({ [eng |-> c.eng, result |-> None, capture_raised |-> c.raised,
                stored |-> c.stored, notified |-> c.notified] :
               c \in { capture(eng, line, EmptyDict, "in", None,
                               PyStr("JSON parse error"), fail) } })
    ELSE The({ [eng |-> c.eng,
                \* an exception from on_capture is caught by the outer
                \* except Exception ("Read error") and None is returned
                result |-> IF c.raised THEN None ELSE line.f,
                capture_raised |-> c.raised,
                stored |-> c.stored, notified |-> c.notified] :
               c \in { capture(eng, line, line.f, "in", None, None, fail) } })

\* A write_message that writes and flushes without calling on_capture.
write_message_uncaptured(eng, out, ok, message, request_id, fail) ==
    IF message.isdict /\ message.payload = "unserializable"
    THEN [eng |-> eng, out |-> out, raised |-> TRUE, capture_raised |-> FALSE,
          stored |-> << >>, notified |-> << >>]
    ELSE [eng |-> eng,
          out |-> IF ok THEN Append(out, Encode(message)) ELSE out,
          raised |-> ~ok, capture_raised |-> FALSE,
          stored |-> << >>, notified |-> << >>]

\* RawStdioTransport.write_message.  ok says whether the stream takes the
\* bytes; out is the output stream afterwards; raised is TRUE when the
\* call ends with an exception.
write_message(eng, out, ok, message, request_id, fail) ==
    IF message.isdict /\ message.payload = "unserializable"
    THEN \* json.dumps raises TypeError before anything is captured
         [eng |-> eng, out |-> out, raised |-> TRUE, capture_raised |-> FALSE,
          stored |-> << >>, notified |-> << >>]
    ELSE The({ IF c.raised
               THEN [eng |-> c.eng, out |-> out, raised |-> TRUE, capture_raised |-> TRUE,
                     stored |-> c.stored, notified |-> c.notified]
               ELSE [eng |-> c.eng,
                     \* self._stdout.write(raw_bytes); self._stdout.flush()
                     out |-> IF ok THEN Append(out, Encode(message)) ELSE out,
                     raised |-> ~ok, capture_raised |-> FALSE,
                     stored |-> c.stored, notified |-> c.notified] :
               c \in { capture(eng, Encode(message), message, "out",
                               IF request_id # None THEN str(request_id) ELSE None,
                               None, fail) } })

(***************************************************************************)
(* router.py.  The registry is the one cli.py builds before run(): two     *)
(* tool modules, no resource provider.                                     *)
(***************************************************************************)
\* ucw_tools.TOOLS and coherence_tools.TOOLS: the descriptors, by name.
UcwTools == << "ucw_capture_stats", "ucw_timeline", "detect_emergence" >>
CoherenceTools ==
    << "coherence_status", "coherence_moments", "coherence_search", "coherence_scan" >>

\* Router.__init__
NewRouter == [tools |-> << >>, tool_handlers |-> << >>, resource_handlers |-> << >>]

\* An implementation slip: a new module's descriptors are put first.
register_tools_first(router, tools_list, handler) ==
    [router EXCEPT
        !.tools = tools_list \o @,
        !.tool_handlers = Append(@, [names |-> { tools_list[i] : i \in DOMAIN tools_list },
                                     handler |-> handler])]

\* Router.register_tools_module
register_tools_module(router, tools_list, handler) ==
    [router EXCEPT
        !.tools = @ \o tools_list,
        !.tool_handlers = Append(@, [names |-> { tools_list[i] : i \in DOMAIN tools_list },
                                     handler |-> handler])]

\* Router.register_resources; handler stands for the provider by what it
\* does with the URI asked for: "content" (returns text), "none" (returns
\* None) or "raise".
register_resources(router, handler) ==
    [router EXCEPT !.resource_handlers = Append(@, handler)]

\* The router after the registrations of cli.py.
Router ==
    register_tools_module(register_tools_module(NewRouter, UcwTools, "ucw_tools"),
                          CoherenceTools, "coherence_tools")

\* self._tool_handlers
ToolModules == Router.tool_handlers

\* The descriptors of `tools` as they are serialized, in order.
RECURSIVE JoinTools(_)
JoinTools(tools) ==
    IF tools = << >> THEN ""
    ELSE IF Len(tools) = 1 THEN tools[1]
    ELSE tools[1] \o "," \o JoinTools(Tail(tools))

\* tools_list_result(tools): {"tools": tools}
tools_list_result(tools) == "{tools:[" \o JoinTools(tools) \o "]}"

\* What a call of the router gives: kind "none" (returns None), "result"
\* (returns `payload`), "protocol_error" (raises ProtocolError(code)) or
\* "exception" (raises another exception);
\* invoked lists the tool handlers called.
Routed(kind, payload, code, invoked) ==
    [kind |-> kind, payload |-> payload, code |-> code, invoked |-> invoked]

\* A dispatch that takes the module registered last among those that hold
\* `name`.
FindLastHandler(tool_handlers, name) ==
    LET S == { i \in 1..Len(tool_handlers) : name \in tool_handlers[i].names }
    IN  IF S = {} THEN 0 ELSE CHOOSE i \in S : \A j \in S : j <= i

\* router.py 115-116: the first entry of tool_handlers that holds `name`, 0
\* when none does.
FindHandler(tool_handlers, name) ==
    LET S == { i \in 1..Len(tool_handlers) : name \in tool_handlers[i].names }
    IN  IF S = {} THEN 0 ELSE CHOOSE i \in S : \A j \in S : i <= j

\* The first registered module that holds `name`, 0 when none does.
FindModule(name) == FindHandler(ToolModules, name)

\* An implementation slip: a failing tool becomes a protocol error.
ToolFailedAsProtocolError(handler) == Routed("protocol_error", "", INTERNAL_ERROR, << handler >>)

\* router.py 120-127: the handler raised; the result is marked isError.
ToolFailed(handler) == Routed("result", "tool_error", 0, << handler >>)

\* An implementation slip: an unknown tool is reported as a tool error.
UnknownToolAsToolError == Routed("result", "tool_error", 0, << >>)

\* router.py 127: no module holds the name.
UnknownTool == Routed("protocol_error", "", METHOD_NOT_FOUND, << >>)

\* router.py 115-127: the dispatch loop over tool_handlers for a non-empty
\* name.
call_tool(tool_handlers, name, outcome) ==
    IF FindHandler(tool_handlers, name) # 0
    THEN LET handler == tool_handlers[FindHandler(tool_handlers, name)].handler
         IN  IF outcome = "raise" THEN ToolFailed(handler)
             ELSE IF outcome = "unserializable"
             THEN Routed("result", "unserializable", 0, << handler >>)
             ELSE Routed("result", "tool_result", 0, << handler >>)
    ELSE UnknownTool

\* Router._handle_tools_call; outcome is what the handler does when called:
\* "ok", "raise", or "unserializable" (it returns a value json.dumps rejects).
handle_tools_call(msg, outcome) ==
    IF ~ParamsIsMap(msg)
    THEN \* params.get("name", "") raises AttributeError
         Routed("exception", "", 0, << >>)
    ELSE IF msg.name = ""
    THEN Routed("protocol_error", "", INVALID_PARAMS, << >>)
    ELSE call_tool(ToolModules, msg.name, outcome)

\* Router._handle_resources_read for params {"uri": uri}; invoked lists the
\* positions of the providers called.  The loop ends at the first provider
\* that returns text or raises.
handle_resources_read(resource_handlers, uri) ==
    LET decisive == { i \in 1..Len(resource_handlers) : resource_handlers[i] # "none" }
        first == IF decisive = {} THEN 0
                 ELSE CHOOSE i \in decisive : \A j \in decisive : i <= j
    IN  IF uri = ""
        THEN Routed("protocol_error", "", INVALID_PARAMS, << >>)
        ELSE IF first = 0
        THEN \* "Resource not found"
             Routed("protocol_error", "", INVALID_PARAMS,
                    [i \in 1..Len(resource_handlers) |-> i])
        ELSE IF resource_handlers[first] = "content"
        THEN Routed("result", "resource", 0, [i \in 1..first |-> i])
        ELSE \* except Exception: raise ProtocolError(INTERNAL_ERROR, ...)
             Routed("protocol_error", "", INTERNAL_ERROR, [i \in 1..first |-> i])

\* Router._handle_initialize: the peer's clientInfo and protocolVersion are
\* read for the log line; the result is built from Config alone.
handle_initialize(msg) ==
    IF ParamsIsMap(msg) THEN Routed("result", "initialize_result", 0, << >>)
    ELSE \* params.get('clientInfo', {}) raises AttributeError
         Routed("exception", "", 0, << >>)

\* Router.route
route(msg_type, msg, outcome) ==
    LET method == GetMethod(msg)
    IN  IF method = "initialize" THEN handle_initialize(msg)
        ELSE IF method \in {"initialized", "notifications/initialized"}
        THEN Routed("none", "", 0, << >>)
        ELSE IF method = "notifications/cancelled" THEN Routed("none", "", 0, << >>)
        ELSE IF method = "ping" THEN Routed("result", "empty", 0, << >>)
        ELSE IF method = "tools/list"
        THEN Routed("result", tools_list_result(Router.tools), 0, << >>)
        ELSE IF method = "tools/call" THEN handle_tools_call(msg, outcome)
        ELSE IF method = "resources/list" THEN Routed("result", "resources_list", 0, << >>)
        ELSE IF method = "resources/read"
        THEN \* no provider is registered: missing URI or "Resource not found"
             IF ParamsIsMap(msg) THEN Routed("protocol_error", "", INVALID_PARAMS, << >>)
             ELSE Routed("exception", "", 0, << >>)
        ELSE Routed("protocol_error", "", METHOD_NOT_FOUND, << >>)

(***************************************************************************)
(* server.py: RawMCPServer._handle_message on `msg`, with the output       *)
(* stream `out` taking bytes iff ok.  escaped is TRUE when an exception    *)
(* leaves _handle_message; written lists the frames it put on the stream.  *)
(***************************************************************************)
Handled(w, written, invoked, escaped, stored, notified) ==
    [eng |-> w.eng, out |-> w.out, written |-> written, invoked |-> invoked,
     escaped |-> escaped, stored |-> stored, notified |-> notified]

\* One write_message call of _handle_message; written is the frame, if it
\* reached the stream.
WriteFrame(eng, out, ok, frame, request_id) ==
    The({ [eng |-> w.eng, out |-> w.out, raised |-> w.raised,
           stored |-> w.stored, notified |-> w.notified,
           written |-> IF w.raised THEN << >> ELSE << frame >>] :
          w \in { write_message(eng, out, ok, frame, request_id, NoFailure) } })

\* The try block from make_response on, for the result `routed` gave.
SendResult(eng, out, ok, request_id, routed) ==
    The({ IF ~w1.raised
          THEN Handled(w1, w1.written, routed.invoked, FALSE, w1.stored, w1.notified)
          ELSE IF request_id = None
          THEN \* except Exception: logged, no id, nothing sent
               Handled(w1, << >>, routed.invoked, FALSE, w1.stored, w1.notified)
          ELSE \* except Exception: an INTERNAL_ERROR frame is written
               The({ Handled(w2, w2.written, routed.invoked, w2.raised,
                             w1.stored \o w2.stored, w1.notified \o w2.notified) :
                     w2 \in { WriteFrame(w1.eng, w1.out, ok,
                                         make_error(request_id, INTERNAL_ERROR),
                                         request_id) } }) :
          w1 \in { WriteFrame(eng, out, ok,
                              make_response(request_id, routed.payload), request_id) } })

\* An except ProtocolError clause that answers frames without an id too.
SendProtocolErrorAlways(eng, out, ok, request_id, routed) ==
    The({ Handled(w, w.written, routed.invoked, w.raised, w.stored, w.notified) :
          w \in { WriteFrame(eng, out, ok,
                             make_error(request_id, routed.code), request_id) } })

\* except ProtocolError: the error frame, when the message has an id.
SendProtocolError(eng, out, ok, request_id, routed) ==
    IF request_id = None
    THEN Handled([eng |-> eng, out |-> out], << >>, routed.invoked, FALSE, << >>, << >>)
    ELSE The({ Handled(w, w.written, routed.invoked, w.raised, w.stored, w.notified) :
               w \in { WriteFrame(eng, out, ok,
                                  make_error(request_id, routed.code), request_id) } })

\* except Exception, for an exception of route: an INTERNAL_ERROR frame,
\* when the message has an id.
SendInternalError(eng, out, ok, request_id, routed) ==
    IF request_id = None
    THEN Handled([eng |-> eng, out |-> out], << >>, routed.invoked, FALSE, << >>, << >>)
    ELSE The({ Handled(w, w.written, routed.invoked, w.raised, w.stored, w.notified) :
               w \in { WriteFrame(eng, out, ok,
                                  make_error(request_id, INTERNAL_ERROR), request_id) } })

\* validate_message and route, as _handle_message calls them.
ValidateAndRoute(msg, outcome) ==
    IF validate_message(msg) = "raise"
    THEN Routed("protocol_error", "", INVALID_REQUEST, << >>)
    ELSE route(validate_message(msg), msg, outcome)

handle_message(eng, out, ok, msg, outcome) ==
    The({ IF routed.kind = "none"
          THEN Handled([eng |-> eng, out |-> out], << >>, routed.invoked, FALSE,
                       << >>, << >>)
          ELSE IF routed.kind = "result"
          THEN SendResult(eng, out, ok, GetId(msg), routed)
          ELSE IF routed.kind = "exception"
          THEN SendInternalError(eng, out, ok, GetId(msg), routed)
          ELSE SendProtocolError(eng, out, ok, GetId(msg), routed) :
          routed \in { ValidateAndRoute(msg, outcome) } })

\* An implementation slip: shutdown() without its `if not self._running` test.
NeverStopped(st) == FALSE

\* server.py 225: shutdown() returns at once when the server is not running.
AlreadyStopped(st) == ~st.running

\* An implementation slip: the init task is left as it is.
LeaveInitTask(db_task) == db_task

\* server.py 233-238: a still-running init task is cancelled and awaited.
CancelInitTask(db_task) == IF db_task = "pending" THEN "cancelled" ELSE db_task

\* RawMCPServer.shutdown on the fields it reads and writes.
shutdown(st) ==
    IF AlreadyStopped(st) THEN st
    ELSE [running |-> FALSE,
          db_task |-> CancelInitTask(st.db_task),
          \* await self._transport.close()
          transport_running |-> FALSE,
          transport_closes |-> st.transport_closes + 1,
          \* if self._db: await self._db.close()
          db |-> IF st.db = "open" THEN "closed" ELSE st.db,
          db_closes |-> IF st.db # "none" THEN st.db_closes + 1 ELSE st.db_closes]

(***************************************************************************)
(* State.                                                                  *)
(***************************************************************************)
VARIABLES
    engine,        \* the CaptureEngine
    db_rows,       \* event ids the persistence sink stored, in order
    callback_log,  \* (callback, event id) pairs of the observer calls made
    stdout,        \* the lines written to the output stream
    stdout_open,   \* FALSE once the peer has closed the output stream
    calls,         \* SpecCapture: engine / transport calls made so far
    capture_raised, \* the last engine.capture call raised to its caller
    pc,            \* where run() stands: init, read, handle, shutdown, stopped
    running,       \* RawMCPServer._running
    transport_running, \* RawStdioTransport.running
    db_task,       \* _db_init_task: none, pending, done, cancelled
    db,            \* RawMCPServer._db: none, unopened, open, closed
    db_ready,      \* RawMCPServer._db_ready
    handshake_complete, \* RawMCPServer._handshake_complete
    msg,           \* the message read_message returned to run()
    nlines,        \* input lines consumed so far
    last_line,     \* the line the last read_message call consumed
    signals,       \* termination signals delivered so far
    shutdown_calls, \* calls of shutdown() made so far
    transport_closes, \* calls of RawStdioTransport.close() made so far
    db_closes,     \* calls of CaptureDB.close() made so far
    validated,     \* SpecProtocol: the last protocol.py call, the frame it
                   \* built or was given, and what validate_message says of it
    snapshot,      \* SpecQueries: the last recent_events call and its list
    capture_calls, \* SpecCapture: calls of engine.capture made so far
    last_capture,  \* SpecPlugins: the last engine.capture call, the plugins
                   \* that raised in it and the callbacks it invoked
    router_state,  \* SpecRouter: a Router and what was registered with it
    router_call,   \* SpecRouter: the last call made on it, the router it was
                   \* made on and what it gave
    last           \* the last finished _handle_message call: its message,
                   \* what the tool handler did, whether the stream took
                   \* bytes, the frames written, the tool handlers invoked

server_vars == << pc, running, transport_running, db_task, db, db_ready,
                  handshake_complete, msg, nlines, last_line, signals,
                  shutdown_calls, transport_closes, db_closes, last >>

\* What the calls made on the parts directly record.
router_vars == << router_state, router_call >>

unit_vars == << validated, snapshot, capture_calls, last_capture, router_vars >>

vars == << engine, db_rows, callback_log, stdout, stdout_open, calls,
           capture_raised, server_vars, unit_vars >>

\* No direct call has been made.
InitUnit ==
    /\ validated = [n |-> 0, op |-> "none", frame |-> EmptyDict, msg_type |-> "raise"]
    /\ snapshot = [n |-> 0, limit |-> 0, count |-> 0, events |-> << >>]
    /\ capture_calls = 0
    /\ last_capture = [n |-> 0, failed |-> {}, raised |-> FALSE, appended |-> FALSE,
                       counted |-> FALSE, event_id |-> None, event_callbacks |-> 0,
                       notified |-> << >>, stored |-> << >>]
    /\ router_state = NewRouter
    /\ router_call = [n |-> 0, op |-> "none", arg |-> "", outcome |-> "ok",
                      at |-> NewRouter, routed |-> Routed("none", "", 0, << >>)]

\* RawMCPServer.__init__
InitServer ==
    /\ pc = "init"
    /\ running = FALSE
    /\ transport_running = FALSE
    /\ db_task = "none"
    /\ db = "none"
    /\ db_ready = FALSE
    /\ handshake_complete = FALSE
    /\ msg = EmptyDict
    /\ nlines = 0
    /\ last_line = Line("none", EmptyDict)
    /\ signals = 0
    /\ shutdown_calls = 0
    /\ transport_closes = 0
    /\ db_closes = 0
    /\ last = [n |-> 0, msg |-> EmptyDict, outcome |-> "ok", open |-> TRUE,
               running |-> FALSE, transport_running |-> FALSE, db_task |-> "none",
               attempts |-> 0, written |-> << >>, invoked |-> << >>,
               escaped |-> FALSE]

(***************************************************************************)
(* SpecCapture: a CaptureEngine as constructed, called directly and        *)
(* through a transport whose on_capture is engine.capture.                 *)
(***************************************************************************)
\* ids used by the frames of SpecCapture
HarnessIds == { PyInt("1"), PyInt("2"), PyStr("1") }

\* {"jsonrpc":"2.0","id":id,"method":"ping"}, or the same without id
PingFrame(id) == Dict(TRUE, id # None, id, TRUE, "ping", "none", "", 0, "")

\* {"jsonrpc":"2.0","id":id,"result":{}}, or the same without id
ResultFrame(id) == Dict(TRUE, id # None, id, FALSE, "", "result", "", 0, "empty")

HarnessInbound ==
    { PingFrame(id) : id \in HarnessIds \cup {None} }
        \cup { ResultFrame(PyInt("1")), EmptyDict }

HarnessOutbound == { ResultFrame(id) : id \in HarnessIds \cup {None} }

HarnessLines ==
    { Line("badjson", EmptyDict), Line("badutf8", EmptyDict), Line("json", NonDict) }
        \cup { Line("json", f) : f \in HarnessInbound }

InitCapture ==
    /\ engine = NewEngine
    /\ db_rows = << >>
    /\ callback_log = << >>
    /\ stdout = << >>
    /\ stdout_open = TRUE
    /\ calls = 0
    /\ capture_raised = FALSE
    /\ InitServer
    /\ InitUnit

\* A sink that puts the newest row first.
CapturedNewestFirst(c) ==
    /\ engine' = c.eng
    /\ db_rows' = c.stored \o db_rows
    /\ callback_log' = callback_log \o c.notified

\* The effect of a capture made through `c` on the engine and the plugins.
Captured(c) ==
    /\ engine' = c.eng
    /\ db_rows' = db_rows \o c.stored
    /\ callback_log' = callback_log \o c.notified

\* await engine.capture(raw_bytes=..., parsed=f, timestamp_ns=..., direction=d)
CaptureCall ==
    /\ calls < MaxCaptures
    /\ \E d \in {"in", "out"} :
         \E f \in (IF d = "in" THEN HarnessInbound \cup {NonDict} ELSE HarnessOutbound) :
           \E c \in { capture(engine, Encode(f), f, d, None, None, NoFailure) } :
               /\ Captured(c)
               /\ capture_raised' = c.raised
    /\ calls' = calls + 1
    /\ capture_calls' = capture_calls + 1
    /\ UNCHANGED << router_vars, stdout, stdout_open, server_vars, validated, snapshot,
                    last_capture >>

\* await transport.read_message() with `line` next on the input stream
ReadCall ==
    /\ calls < MaxCaptures
    /\ \E line \in HarnessLines :
           \E r \in { read_message(engine, line, NoFailure) } :
               /\ Captured(r)
               /\ capture_raised' = r.capture_raised
               \* on_capture is called for every line json.loads accepts or
               \* rejects with JSONDecodeError
               /\ capture_calls' = IF line.kind \in {"json", "badjson"}
                                   THEN capture_calls + 1 ELSE capture_calls
    /\ calls' = calls + 1
    /\ UNCHANGED << router_vars, stdout, stdout_open, server_vars, validated, snapshot,
                    last_capture >>

\* await transport.write_message(message, request_id=message["id"])
WriteCall ==
    /\ calls < MaxCaptures
    /\ \E id \in HarnessIds :
           \E w \in { write_message(engine, stdout, stdout_open, ResultFrame(id), id, NoFailure) } :
               /\ Captured(w)
               /\ capture_raised' = w.capture_raised
               /\ stdout' = w.out
    /\ calls' = calls + 1
    /\ capture_calls' = capture_calls + 1
    /\ UNCHANGED << router_vars, stdout_open, server_vars, validated, snapshot, last_capture >>

NextCapture == CaptureCall \/ ReadCall \/ WriteCall

SpecCapture == InitCapture /\ [][NextCapture]_vars

(***************************************************************************)
(* SpecProtocol: the functions of protocol.py called on their own, as      *)
(* tests/test_protocol.py does.                                            *)
(***************************************************************************)
\* Number of protocol.py calls made in a SpecProtocol behaviour.
MaxValidations == 2

\* ids handed to the builders and carried by the frames validated
ProtocolIds == { None, PyInt("1"), PyStr("1") }

\* Every decoded object by version tag, id, method and members, and a
\* decoded value that is not an object.
ProtocolFrames ==
    { Dict(v, h, IF h THEN id ELSE None, m, IF m THEN "ping" ELSE "", b, "", 0, "") :
        v \in BOOLEAN, h \in BOOLEAN, id \in ProtocolIds, m \in BOOLEAN,
        b \in {"result", "error", "result_error", "none"} }
    \cup { NonDict }

\* The call made, the frame and validate_message's verdict on the frame.
Validated(op, frame) ==
    [n |-> validated.n + 1, op |-> op, frame |-> frame,
     msg_type |-> validate_message(frame)]

\* validate_message(frame)
ValidateCall ==
    /\ validated.n < MaxValidations
    /\ \E frame \in ProtocolFrames :
           validated' = Validated("validate_message", frame)
    /\ UNCHANGED << router_vars, engine, db_rows, callback_log, stdout, stdout_open, calls,
                    capture_raised, server_vars, snapshot, capture_calls,
                    last_capture >>

\* validate_message(make_response(id, result))
MakeResponseCall ==
    /\ validated.n < MaxValidations
    /\ \E id \in ProtocolIds : \E result \in {"empty", "tool_result"} :
           validated' = Validated("make_response", make_response(id, result))
    /\ UNCHANGED << router_vars, engine, db_rows, callback_log, stdout, stdout_open, calls,
                    capture_raised, server_vars, snapshot, capture_calls,
                    last_capture >>

\* validate_message(make_error(id, code, message))
MakeErrorCall ==
    /\ validated.n < MaxValidations
    /\ \E id \in ProtocolIds :
           \E code \in {PARSE_ERROR, INVALID_REQUEST, METHOD_NOT_FOUND, INVALID_PARAMS,
                         INTERNAL_ERROR} :
               validated' = Validated("make_error", make_error(id, code))
    /\ UNCHANGED << router_vars, engine, db_rows, callback_log, stdout, stdout_open, calls,
                    capture_raised, server_vars, snapshot, capture_calls,
                    last_capture >>

NextProtocol == ValidateCall \/ MakeResponseCall \/ MakeErrorCall

SpecProtocol == InitCapture /\ [][NextProtocol]_vars

(***************************************************************************)
(* Spec: RawMCPServer.run() on the registry of cli.py, reading the lines   *)
(* the peer sends.                                                         *)
(***************************************************************************)
\* The frames the peer sends: initialize with each kind of params, a
\* tools/call whose params is not a map, every routed method as a request
\* (id 1) and as
\* a notification (no id), tools/call for a missing, a registered and an
\* unregistered name, frames without a method, frames with "id": null, and
\* frames with a wrong version tag.
ServerMethods ==
    { "initialize", "notifications/initialized", "notifications/cancelled",
      "ping", "tools/list", "resources/list", "resources/read", "bogus/method" }

ToolNames == { "", "ucw_capture_stats", "no_such_tool" }

\* {"jsonrpc":"2.0","id":id,"method":method,"params":{"name":name}}; has_id
\* FALSE leaves the id out, has_id TRUE with id None is "id": null.
Request(has_id, id, method, name) ==
    Dict(TRUE, has_id, id, TRUE, method, "none", name, 0, "")

ServerFrames ==
    { Request(h, IF h THEN PyInt("1") ELSE None, m, "") :
        h \in BOOLEAN, m \in ServerMethods }
    \cup { Request(h, IF h THEN PyInt("1") ELSE None, "tools/call", n) :
        h \in BOOLEAN, n \in ToolNames }
    \cup { Dict(TRUE, h, IF h THEN PyInt("1") ELSE None, FALSE, "", b, "", 0, "") :
        h \in BOOLEAN, b \in {"result", "none"} }
    \cup { Request(TRUE, None, m, "") : m \in {"ping", "bogus/method"} }
    \cup { Request(TRUE, None, "tools/call", "no_such_tool") }
    \cup { WithParams(Request(TRUE, PyInt("1"), "initialize", ""), p) :
             p \in {"absent", "map_v1999", "nonmap"} }
    \cup { WithParams(Request(TRUE, PyInt("1"), "tools/call", ""), "nonmap") }
    \cup { [Request(h, IF h THEN PyInt("1") ELSE None, "ping", "") EXCEPT !.jsonrpc = FALSE] :
        h \in BOOLEAN }

ServerLines ==
    { Line("eof", EmptyDict), Line("badjson", EmptyDict), Line("badutf8", EmptyDict),
      Line("json", NonDict) }
        \cup { Line("json", f) : f \in ServerFrames }

Init ==
    /\ engine = NewEngine
    /\ db_rows = << >>
    /\ callback_log = << >>
    /\ stdout = << >>
    /\ stdout_open = TRUE
    /\ calls = 0
    /\ capture_raised = FALSE
    /\ InitServer
    /\ InitUnit

\* run(), up to the loop: attach the bridge, start the transport, launch
\* the background initialisation, set _running.
RunStart ==
    /\ UNCHANGED unit_vars
    /\ pc = "init"
    /\ engine' = [engine EXCEPT !.ucw_bridge = TRUE]
    /\ transport_running' = TRUE
    /\ db_task' = "pending"
    /\ running' = TRUE
    /\ pc' = "read"
    /\ UNCHANGED << db_rows, callback_log, stdout, stdout_open, calls, capture_raised,
                    db, db_ready, handshake_complete, msg, nlines, last_line, signals,
                    shutdown_calls, transport_closes, db_closes, last >>

\* An implementation slip: readiness is awaited for every method.
AlwaysAwaitsDb(method) == TRUE

\* An implementation slip: readiness is never awaited.
NeverAwaitsDb(method) == FALSE

\* server.py 188-189: _ensure_db_ready is called for tools/call only.
AwaitsDb(method) == method = "tools/call"

\* An implementation slip: _ensure_db_ready waits until the sink is ready.
AwaitsUntilReady(m) ==
    /\ AwaitsDb(GetMethod(m))
    /\ validate_message(m) # "raise"
    /\ ~db_ready

\* _ensure_db_ready returns at once, or must wait for the init task.
MustAwaitDb(m) ==
    /\ AwaitsDb(GetMethod(m))
    /\ validate_message(m) # "raise"
    /\ ~db_ready
    /\ db_task = "pending"

\* run() is suspended: in read_message, or in a _handle_message that waits
\* for the init task.  Other tasks of the event loop run only then.
LoopSuspended == pc = "read" \/ (pc = "handle" /\ MustAwaitDb(msg))

\* _init_db_background, run when the loop is suspended.  It has no await
\* that suspends; it fails in CaptureDB.initialize ("initialize") or after
\* the sink is attached ("inject"), or succeeds ("ok").
InitDbBackground ==
    /\ UNCHANGED unit_vars
    /\ db_task = "pending"
    /\ LoopSuspended
    /\ \E outcome \in {"ok", "initialize", "inject"} :
          /\ db' = IF outcome = "initialize" THEN "unopened" ELSE "open"
          /\ engine' = IF outcome = "initialize" THEN engine
                       ELSE set_db_sink(engine)
          /\ db_ready' = (outcome = "ok")
    /\ db_task' = "done"
    /\ UNCHANGED << db_rows, callback_log, stdout, stdout_open, calls, capture_raised,
                    pc, running, transport_running, handshake_complete, msg, nlines,
                    last_line, signals, shutdown_calls, transport_closes, db_closes,
                    last >>

\* The peer closes its end of the output stream: later writes fail.
PeerClosesStdout ==
    /\ UNCHANGED unit_vars
    /\ pc \in {"read", "handle"}
    /\ stdout_open
    /\ stdout_open' = FALSE
    /\ UNCHANGED << engine, db_rows, callback_log, stdout, calls, capture_raised,
                    server_vars >>

\* A loop that reads the next line while _handle_message is still running.
ReadsWhileHandling(at) == at \in {"read", "handle"}

\* server.py 161-166: the loop calls read_message only after
\* `await self._handle_message(parsed)` of the frame before has returned.
ReadsNext(at) == at = "read"

\* The read_message call the loop is suspended in returns: None ends the
\* loop.  `while self._running` was tested before the call was made.
ReadMessage ==
    /\ UNCHANGED unit_vars
    /\ ReadsNext(pc)
    /\ \E line \in (IF nlines < MaxLines THEN ServerLines ELSE {Line("eof", EmptyDict)}) :
          \E r \in { read_message(engine, line, NoFailure) } :
              /\ Captured(r)
              /\ capture_raised' = r.capture_raised
              /\ nlines' = IF line.kind = "eof" THEN nlines ELSE nlines + 1
              /\ last_line' = line
              /\ msg' = IF r.result = None THEN msg ELSE r.result
              /\ pc' = IF r.result = None THEN "shutdown" ELSE "handle"
    /\ UNCHANGED << stdout, stdout_open, calls, running, transport_running,
                    db_task, db, db_ready, handshake_complete, signals,
                    shutdown_calls, transport_closes, db_closes, last >>

\* await self._handle_message(parsed)
HandleMessage ==
    /\ UNCHANGED unit_vars
    /\ pc = "handle"
    /\ ~MustAwaitDb(msg)
    /\ \E outcome \in (IF GetMethod(msg) = "tools/call"
                          /\ validate_message(msg) # "raise"
                          /\ FindModule(msg.name) # 0
                       THEN {"ok", "raise", "unserializable"} ELSE {"ok"}) :
          \E h \in { handle_message(engine, stdout, stdout_open, msg, outcome) } :
              /\ Captured(h)
              /\ stdout' = h.out
              /\ last' = [n |-> last.n + 1, msg |-> msg, outcome |-> outcome,
                          open |-> stdout_open, running |-> running,
                          transport_running |-> transport_running,
                          db_task |-> db_task,
                          attempts |-> Len(h.eng.events) - Len(engine.events),
                          written |-> h.written,
                          invoked |-> h.invoked, escaped |-> h.escaped]
              \* an exception ends the loop; so does `while self._running`
              /\ pc' = IF h.escaped \/ ~running THEN "shutdown" ELSE "read"
    /\ handshake_complete' =
          (handshake_complete \/ GetMethod(msg) \in {"initialized", "notifications/initialized"})
    /\ capture_raised' = FALSE
    /\ UNCHANGED << stdout_open, calls, running, transport_running, db_task, db,
                    db_ready, msg, nlines, last_line, signals, shutdown_calls,
                    transport_closes, db_closes >>

\* One call of shutdown() on the server's fields.
ShutdownCalled ==
    \E st \in { shutdown([running |-> running, db_task |-> db_task,
                          transport_running |-> transport_running,
                          transport_closes |-> transport_closes,
                          db |-> db, db_closes |-> db_closes]) } :
        /\ running' = st.running
        /\ db_task' = st.db_task
        /\ transport_running' = st.transport_running
        /\ transport_closes' = st.transport_closes
        /\ db' = st.db
        /\ db_closes' = st.db_closes
        /\ shutdown_calls' = shutdown_calls + 1

\* run()'s finally: await self.shutdown(), then run() returns.
Shutdown ==
    /\ UNCHANGED unit_vars
    /\ pc = "shutdown"
    /\ pc' = "stopped"
    /\ ShutdownCalled
    /\ UNCHANGED << engine, db_rows, callback_log, stdout, stdout_open, calls,
                    capture_raised, db_ready, handshake_complete, msg, nlines,
                    last_line, signals, last >>

\* SIGINT or SIGTERM: the handler installed by run() starts a task that
\* calls shutdown(); the task runs while the loop is suspended.  A
\* _handle_message waiting for the init task is cancelled with it
\* (CancelledError leaves the loop through run()'s except clause).
Signal ==
    /\ UNCHANGED unit_vars
    /\ LoopSuspended
    /\ signals < MaxSignals
    /\ signals' = signals + 1
    /\ ShutdownCalled
    /\ pc' = IF pc = "handle" /\ running THEN "shutdown" ELSE pc
    /\ UNCHANGED << engine, db_rows, callback_log, stdout, stdout_open, calls,
                    capture_raised, db_ready, handshake_complete, msg, nlines,
                    last_line, last >>

\* await server.shutdown() once more, after run() has returned.
ShutdownAgain ==
    /\ UNCHANGED unit_vars
    /\ pc = "stopped"
    /\ shutdown_calls < MaxShutdowns
    /\ ShutdownCalled
    /\ UNCHANGED << engine, db_rows, callback_log, stdout, stdout_open, calls,
                    capture_raised, pc, db_ready, handshake_complete, msg, nlines,
                    last_line, signals, last >>

Next == RunStart \/ InitDbBackground \/ PeerClosesStdout \/ ReadMessage
            \/ HandleMessage \/ Shutdown \/ Signal \/ ShutdownAgain

Spec == Init /\ [][Next]_vars

(***************************************************************************)
(* Properties of the capture engine, checked under SpecCapture.            *)
(***************************************************************************)
Events == engine.events

\* An inbound event of a frame that carries a method and an id: a request.
IsRequestEvent(e) == e.direction = "in" /\ e.method # "" /\ e.request_id # None

\* The positions before i of the requests whose stringified id is that of e.
RequestsBefore(i, e) ==
    { j \in 1..(i - 1) : /\ IsRequestEvent(Events[j])
                         /\ str(Events[j].request_id) = str(e.request_id) }

Last(S) == CHOOSE j \in S : \A k \in S : k <= j

\* C1 (as claimed): every inbound frame with a method and an id gets a turn
\* number greater than that of every earlier such frame, equal to the number
\* of inbound method-and-id frames captured so far.
C1_TurnCountsRequests ==
    \A i \in 1..Len(Events) :
        IsRequestEvent(Events[i]) =>
            /\ Events[i].turn = Cardinality({ j \in 1..i : IsRequestEvent(Events[j]) })
            /\ \A j \in 1..(i - 1) :
                   IsRequestEvent(Events[j]) => Events[j].turn < Events[i].turn

\* C2 (as claimed): an outbound event whose stringified id is that of a
\* previously captured inbound request has the turn of that request (the
\* latest one with the id) and its event identifier as back-reference.
C2_ResponseLinksToRequest ==
    \A i \in 1..Len(Events) :
        LET e == Events[i] IN
        (e.direction = "out" /\ e.request_id # None /\ RequestsBefore(i, e) # {}) =>
            LET r == Events[Last(RequestsBefore(i, e))]
            IN  e.turn = r.turn /\ e.parent_protocol_id = r.event_id

\* C3 (as claimed): an event has a back-reference if and only if it is
\* outbound and an inbound frame with the same stringified id had been put
\* in the lineage map when it was captured.
C3_BackRefIffTracked ==
    \A i \in 1..Len(Events) :
        LET e == Events[i] IN
        (e.parent_protocol_id # None) <=>
            /\ e.direction = "out"
            /\ e.request_id # None
            /\ \E j \in 1..(i - 1) :
                   /\ Events[j].direction = "in"
                   /\ Events[j].request_id # None
                   /\ str(Events[j].request_id) = str(e.request_id)

\* The log is a run of requests followed by outbound frames (frames without
\* an id, such as notifications and malformed lines, may occur anywhere).
RequestsThenResponses ==
    \A i \in 1..Len(Events) :
        Events[i].direction = "in" /\ Events[i].request_id # None =>
            /\ IsRequestEvent(Events[i])
            /\ \A j \in 1..(i - 1) : Events[j].direction = "in"

\* Every response is linked to the request that carries its own id.
EachResponseLinksToOwnRequest ==
    \A i \in 1..Len(Events) : \A j \in 1..(i - 1) :
        (/\ Events[i].direction = "out"
         /\ IsRequestEvent(Events[j])
         /\ Events[i].request_id = Events[j].request_id) =>
            /\ Events[i].parent_protocol_id = Events[j].event_id
            /\ Events[i].turn = Events[j].turn

\* C4 (as claimed): requests with pairwise distinct ids, then their
\* responses in any order: each response has the back-reference and turn of
\* the request with its own id.
C4_DistinctIdsCorrelate ==
    (/\ RequestsThenResponses
     /\ \A i, j \in 1..Len(Events) :
            (i # j /\ IsRequestEvent(Events[i]) /\ IsRequestEvent(Events[j])) =>
                Events[i].request_id # Events[j].request_id)
        => EachResponseLinksToOwnRequest

\* C4 (amended): the same for requests whose ids are pairwise distinct as
\* strings, str(id) being the key of the lineage map.
C4_DistinctKeysCorrelate ==
    (/\ RequestsThenResponses
     /\ \A i, j \in 1..Len(Events) :
            (i # j /\ IsRequestEvent(Events[i]) /\ IsRequestEvent(Events[j])) =>
                str(Events[i].request_id) # str(Events[j].request_id))
        => EachResponseLinksToOwnRequest

\* C4 witness: requests 1 and 2 answered in reverse order, each response
\* linked to its own request.
C4_Witness ==
    /\ Len(Events) = 4
    /\ IsRequestEvent(Events[1]) /\ Events[1].request_id = PyInt("1")
    /\ IsRequestEvent(Events[2]) /\ Events[2].request_id = PyInt("2")
    /\ Events[3].direction = "out" /\ Events[3].request_id = PyInt("2")
    /\ Events[4].direction = "out" /\ Events[4].request_id = PyInt("1")
    /\ Events[4].parent_protocol_id = Events[1].event_id
    /\ Events[3].parent_protocol_id = Events[2].event_id

\* C8 (as claimed): capture never raises to its caller.
C8_CaptureNeverRaises == ~capture_raised

(***************************************************************************)
(* Properties of the server loop, checked under Spec.                      *)
(***************************************************************************)
\* The last line read failed to decode: json.loads raised on it.
MalformedLineRead == last_line.kind \in {"badjson", "badutf8"}

\* A _handle_message call has finished on a frame with a non-null id.
HandledWithId == last.n > 0 /\ last.msg.has_id /\ GetId(last.msg) # None

\* A _handle_message call has finished on a tools/call request with a
\* non-null id.
HandledToolCall == HandledWithId /\ GetMethod(last.msg) = "tools/call"

\* C5 (as claimed): a line that fails to decode leaves exactly one inbound
\* event with an error field, is not dispatched, and does not end the read
\* loop.
C5_MalformedLineKeepsLoop ==
    MalformedLineRead =>
        /\ pc \notin {"shutdown", "stopped"}
        /\ Len(Events) >= 1
        /\ Events[Len(Events)].direction = "in"
        /\ Events[Len(Events)].error # None

\* C6 (as claimed): no outbound frame is written in response to a frame
\* with a method and no id.
C6_NotificationUnanswered ==
    (last.n > 0 /\ last.msg.has_method /\ ~last.msg.has_id) => last.written = << >>

\* C7 (as claimed): a handled frame with an id produces exactly one outbound
\* frame, a result or a protocol error with the same id (the output stream
\* taking bytes).
C7_OneAnswerPerId ==
    (HandledWithId /\ last.open) =>
        /\ Len(last.written) = 1
        /\ last.written[1].body \in {"result", "error"}
        /\ GetId(last.written[1]) = GetId(last.msg)

\* C9: when the handler of a registered tool fails, no error frame is
\* written for the tools/call request, and where the stream takes bytes
\* exactly one frame is written: a result with the request's id whose
\* payload is marked isError.
C9_ToolFailureIsToolError ==
    (HandledToolCall /\ FindModule(last.msg.name) # 0 /\ last.outcome = "raise") =>
        /\ \A i \in 1..Len(last.written) : last.written[i].body # "error"
        /\ last.open =>
               last.written = << make_response(GetId(last.msg), "tool_error") >>

\* C9 witness: a failing registered tool answered on an open stream.
C9_Witness ==
    /\ HandledToolCall
    /\ FindModule(last.msg.name) # 0
    /\ last.outcome = "raise"
    /\ last.open
    /\ last.invoked # << >>
    /\ Len(stdout) >= 1
    /\ stdout[Len(stdout)] = Encode(make_response(PyInt("1"), "tool_error"))

\* C10: a tools/call request with a (non-null) id naming a tool no module
\* registered invokes no handler and writes nothing but a METHOD_NOT_FOUND
\* error frame with the request's id, which it does write where the stream
\* takes bytes.
C10_UnknownToolIsMethodNotFound ==
    (HandledToolCall /\ last.msg.name # "" /\ FindModule(last.msg.name) = 0) =>
        /\ last.invoked = << >>
        /\ \A i \in 1..Len(last.written) :
               last.written[i] = make_error(GetId(last.msg), METHOD_NOT_FOUND)
        /\ last.open => Len(last.written) = 1

\* C10 witness: an unknown tool answered on an open stream.
C10_Witness ==
    /\ HandledToolCall
    /\ last.msg.name = "no_such_tool"
    /\ last.open
    /\ Len(stdout) >= 1
    /\ stdout[Len(stdout)] = Encode(make_error(PyInt("1"), METHOD_NOT_FOUND))

(***************************************************************************)
(* Shutdown, checked under Spec.                                           *)
(***************************************************************************)
\* C11: a shutdown() call made after an earlier one changes nothing the
\* server or its peer can observe, and the transport and the persistence
\* sink are each closed at most once.
C11_ShutdownIdempotent ==
    /\ [](transport_closes <= 1 /\ db_closes <= 1)
    /\ [][(shutdown_calls >= 1 /\ shutdown_calls' = shutdown_calls + 1) =>
              UNCHANGED << running, transport_running, db_task, db, db_ready,
                           transport_closes, db_closes, engine, db_rows,
                           stdout >>]_vars

\* C11 witness: shutdown() has been called twice on a server with an open
\* sink, and each close was made once.
C11_Witness ==
    /\ shutdown_calls = 2
    /\ signals = 0
    /\ transport_closes = 1
    /\ db_closes = 1
    /\ db = "closed"

C13_NoFrameAfterStop == last.n > 0 => last.running

(***************************************************************************)
(* Write failures and background initialisation, checked under Spec.       *)
(***************************************************************************)
\* A _handle_message call has finished in which a write to the output
\* stream failed: it called write_message while the stream took no bytes.
WriteFailed == last.n > 0 /\ ~last.open /\ last.attempts >= 1

\* C14 (as claimed): after a failed write the server attempts no further
\* write and reads no further frame: it goes to shutdown.
C14_WriteFailureFatal ==
    WriteFailed => (last.attempts = 1 /\ pc \in {"shutdown", "stopped"})

\* The methods of the handshake, ping and the two listings.
EagerMethods == { "initialize", "ping", "tools/list", "resources/list" }

\* C15: a request for initialize, ping, tools/list or resources/list never
\* waits for the background init task, and is answered (the stream taking
\* bytes) whatever the state of that task.
C15_EagerMethodsNeverWait ==
    /\ (pc = "handle" /\ GetMethod(msg) \in EagerMethods) => ~MustAwaitDb(msg)
    /\ (/\ last.n > 0
        /\ GetMethod(last.msg) \in EagerMethods
        /\ validate_message(last.msg) = "request"
        /\ last.open) => Len(last.written) = 1

\* C15 witness: an initialize request answered while the init task had not
\* run yet.
C15_Witness ==
    /\ last.n > 0
    /\ GetMethod(last.msg) = "initialize"
    /\ validate_message(last.msg) = "request"
    /\ last.db_task = "pending"
    /\ last.open
    /\ Len(last.written) = 1
    /\ last.written[1].body = "result"

\* C16: whenever a tool handler was invoked, the init task had finished
\* (with success, with a failure, or cancelled) before the call was routed.
C16_NoToolWhileInitRuns ==
    (last.n > 0 /\ last.invoked # << >>) => last.db_task \in {"done", "cancelled"}

\* C16 witness: a tool handler invoked after the init task finished.
C16_Witness ==
    /\ last.n > 0
    /\ last.invoked # << >>
    /\ GetMethod(last.msg) = "tools/call"
    /\ last.db_task = "done"

\* The init task has finished without making the sink ready.
InitFailed == db_task = "done" /\ ~db_ready

\* C17: after a failed initialisation a tools/call is not made to wait, and
\* a tools/call request for a registered tool whose handler returns or
\* raises is answered, the stream taking bytes, with one result frame.
C17_ServesAfterInitFailure ==
    /\ (InitFailed /\ pc = "handle" /\ GetMethod(msg) = "tools/call")
           => ~MustAwaitDb(msg)
    /\ (/\ InitFailed
        /\ HandledToolCall
        /\ last.db_task = "done"
        /\ FindModule(last.msg.name) # 0
        /\ last.outcome \in {"ok", "raise"}
        /\ last.open)
           => /\ Len(last.written) = 1
              /\ last.written[1].body = "result"
              /\ GetId(last.written[1]) = GetId(last.msg)
              /\ last.written[1].payload \in {"tool_result", "tool_error"}

\* C17 witness: CaptureDB.initialize failed, and a later tools/call request
\* got its result frame.
C17_Witness ==
    /\ InitFailed
    /\ db = "unopened"
    /\ HandledToolCall
    /\ last.db_task = "done"
    /\ last.invoked # << >>
    /\ last.open
    /\ Len(last.written) = 1
    /\ last.written[1].body = "result"

Answered(method) == HandledWithId /\ GetMethod(last.msg) = method /\ last.open

\* C19: every tools/list request is answered with the descriptors of
\* ucw_tools and then of coherence_tools, each once and in the order they
\* were registered; after a tools/list that is the first line of the session
\* the turn counter is 1.
C19_ToolsListIsRegistry ==
    /\ Answered("tools/list") =>
           last.written = << make_response(GetId(last.msg),
               "{tools:[ucw_capture_stats,ucw_timeline,detect_emergence,coherence_status,coherence_moments,coherence_search,coherence_scan]}") >>
    /\ (Answered("tools/list") /\ last.n = 1 /\ nlines = 1) => engine.turn_counter = 1

\* C19 witness: two tools/list requests in a session, the second answered
\* like the first.
C19_Witness ==
    /\ Answered("tools/list")
    /\ last.n = 2
    /\ Len(stdout) = 2
    /\ stdout[1] = stdout[2]
    /\ stdout[1].f.payload = tools_list_result(UcwTools \o CoherenceTools)
    /\ engine.turn_counter = 2

\* C20 (as claimed): every initialize request with an id is answered with
\* the same fixed payload, whatever its params.
C20_InitializeResultFixed ==
    Answered("initialize") =>
        last.written = << make_response(GetId(last.msg), "initialize_result") >>

(***************************************************************************)
(* Properties of protocol.py, checked under SpecProtocol.                  *)
(***************************************************************************)
\* C21: a frame built by make_response validates as a response and a frame
\* built by make_error validates as an error, for every id (null included),
\* result and code.
C21_BuildersRoundTrip ==
    /\ validated.op = "make_response" => validated.msg_type = "response"
    /\ validated.op = "make_error" => validated.msg_type = "error"

\* C21 witness: an error frame built for a null id validates as an error.
C21_Witness ==
    /\ validated.op = "make_error"
    /\ validated.frame.has_id /\ validated.frame.id = None
    /\ validated.frame.code = INVALID_REQUEST
    /\ validated.msg_type = "error"

\* The frame has the version tag and one of the four shapes.
WellShaped(f) ==
    /\ f.isdict
    /\ f.jsonrpc
    /\ \/ f.has_method
       \/ f.has_id /\ f.body \in {"result", "error", "result_error"}

\* C22: validate_message fails exactly when the frame is not a map, has no
\* "2.0" version tag or none of the four shapes; otherwise a method with an
\* id is a request, a method without id a notification, a result with an
\* id (and no method) a response, an error with an id (and neither) an error.
C22_ValidateClassifies ==
    validated.op = "validate_message" =>
        LET f == validated.frame
            t == validated.msg_type
        IN  /\ (t = "raise") <=> ~WellShaped(f)
            /\ (WellShaped(f) /\ f.has_method /\ f.has_id) => t = "request"
            /\ (WellShaped(f) /\ f.has_method /\ ~f.has_id) => t = "notification"
            /\ (WellShaped(f) /\ ~f.has_method /\ f.body = "result") => t = "response"
            /\ (WellShaped(f) /\ ~f.has_method /\ f.body = "error") => t = "error"

\* C22 witness: a frame with a method and a wrong version tag was refused.
C22_Witness ==
    /\ validated.op = "validate_message"
    /\ validated.frame.isdict
    /\ validated.frame.has_method
    /\ ~validated.frame.jsonrpc
    /\ validated.msg_type = "raise"

(***************************************************************************)
(* Counters and the lineage map, checked under SpecCapture.                *)
(***************************************************************************)
\* C23 (as claimed): the grand total is the sum of the per-direction
\* counters, and both are event_count, the number of capture calls made.
C23_CountersCountCalls ==
    /\ engine.stats.total = engine.stats.in_received + engine.stats.out_sent
    /\ engine.stats.total = Len(Events)
    /\ Len(Events) = capture_calls

\* The positions of the inbound events that carry a method and an id.
RequestPositions == { i \in 1..Len(Events) : IsRequestEvent(Events[i]) }

\* C25 (as claimed): the turn counter is the number of inbound frames with
\* a method and an id captured so far; no other capture changes it.
C25_OnlyRequestsOpenTurns == engine.turn_counter = Cardinality(RequestPositions)

\* C26 (as claimed): the keys of the lineage map are the stringified ids of
\* the inbound frames with a method and an id captured so far.
C26_LineageKeysAreRequestIds ==
    DOMAIN engine.request_map =
        { LineageKey(Events[i].request_id) : i \in RequestPositions }

(***************************************************************************)
(* SpecQueries: a CaptureEngine whose log grows while recent_events is     *)
(* called with different limits.                                           *)
(***************************************************************************)
MaxQueryCaptures == 3
MaxQueries == 2
MaxLimit == 4

Min(a, b) == IF a <= b THEN a ELSE b

\* CaptureEvent.to_dict, without the timestamp, the byte count and the
\* semantic layers.  The key "error" is present when the error is truthy.
to_dict(e) ==
    [event_id |-> e.event_id,
     direction |-> e.direction,
     stage |-> e.stage,
     method |-> e.method,
     request_id |-> e.request_id,
     parent_protocol_id |-> e.parent_protocol_id,
     turn |-> e.turn,
     has_error |-> e.error # None,
     error |-> e.error]

\* self._events[-limit:] starts at this (0-based) index: -0 is 0, the start
\* of the list; a negative index counts from the end and is clamped.
SliceStart(n, limit) ==
    IF limit = 0 THEN 0
    ELSE IF limit > 0 THEN (IF n - limit > 0 THEN n - limit ELSE 0)
    ELSE Min(-limit, n)

\* CaptureEngine.recent_events: a new list of new dicts.
recent_events(events, limit) ==
    LET start == SliceStart(Len(events), limit)
    IN  [i \in 1..(Len(events) - start) |-> to_dict(events[start + i])]

QueryFrames ==
    { << "in", PingFrame(PyInt("1")) >>, << "in", PingFrame(None) >>,
      << "out", ResultFrame(PyInt("1")) >> }

\* await engine.capture(...) between two queries
QueryCapture ==
    /\ calls < MaxQueryCaptures
    /\ \E df \in QueryFrames :
           \E c \in { capture(engine, Encode(df[2]), df[2], df[1], None, None, NoFailure) } :
               /\ Captured(c)
               /\ capture_raised' = c.raised
    /\ calls' = calls + 1
    /\ capture_calls' = capture_calls + 1
    /\ UNCHANGED << router_vars, stdout, stdout_open, server_vars, validated, snapshot,
                    last_capture >>

\* recent = engine.recent_events(limit); the caller keeps `recent`
RecentEventsCall ==
    /\ snapshot.n < MaxQueries
    /\ \E limit \in 0..MaxLimit :
           snapshot' = [n |-> snapshot.n + 1,
                        limit |-> limit,
                        count |-> Len(engine.events),
                        events |-> recent_events(engine.events, limit)]
    /\ UNCHANGED << router_vars, engine, db_rows, callback_log, stdout, stdout_open, calls,
                    capture_raised, server_vars, validated, capture_calls,
                    last_capture >>

NextQueries == QueryCapture \/ RecentEventsCall

SpecQueries == InitCapture /\ [][NextQueries]_vars

\* C24 (as claimed): the list recent_events(N) returned holds the dicts of
\* the min(N, event_count) events captured last before the call, in capture
\* order, whatever is captured afterwards.
C24_RecentEventsReturnsLastN ==
    snapshot.n > 0 =>
        \E k \in { Min(snapshot.limit, snapshot.count) } :
            snapshot.events =
                [i \in 1..k |-> to_dict(Events[snapshot.count - k + i])]

(***************************************************************************)
(* SpecPlugins: a CaptureEngine with a bridge, a sink and callbacks        *)
(* attached, any of which may raise during a capture.                      *)
(***************************************************************************)
MaxCallbacks == 2
MaxPluginCaptures == 2

\* engine.set_ucw_bridge(bridge)
SetUcwBridge ==
    /\ engine' = [engine EXCEPT !.ucw_bridge = TRUE]
    /\ UNCHANGED << db_rows, callback_log, stdout, stdout_open, calls,
                    capture_raised, server_vars, unit_vars >>

\* engine.set_db_sink(db)
SetDbSink ==
    /\ engine' = set_db_sink(engine)
    /\ UNCHANGED << db_rows, callback_log, stdout, stdout_open, calls,
                    capture_raised, server_vars, unit_vars >>

\* engine.on_event(callback)
OnEvent ==
    /\ engine.event_callbacks < MaxCallbacks
    /\ engine' = [engine EXCEPT !.event_callbacks = @ + 1]
    /\ UNCHANGED << db_rows, callback_log, stdout, stdout_open, calls,
                    capture_raised, server_vars, unit_vars >>

PluginFrames ==
    { << "in", PingFrame(PyInt("1")) >>, << "in", NonDict >>,
      << "out", ResultFrame(PyInt("1")) >> }

\* await engine.capture(...) while the plugins of `fail` raise
PluginCapture ==
    /\ calls < MaxPluginCaptures
    /\ \E df \in PluginFrames, fail \in Failures(engine.event_callbacks) :
           \E c \in { capture(engine, Encode(df[2]), df[2], df[1], None, None, fail) } :
               /\ Captured(c)
               /\ capture_raised' = c.raised
               /\ last_capture' =
                      [n |-> last_capture.n + 1,
                       failed |-> c.failed,
                       raised |-> c.raised,
                       appended |-> Len(c.eng.events) = Len(engine.events) + 1,
                       counted |-> c.eng.stats.total = engine.stats.total + 1,
                       event_id |-> IF c.raised THEN None
                                    ELSE c.eng.events[Len(c.eng.events)].event_id,
                       event_callbacks |-> engine.event_callbacks,
                       notified |-> c.notified,
                       stored |-> c.stored]
    /\ calls' = calls + 1
    /\ capture_calls' = capture_calls + 1
    /\ UNCHANGED << router_vars, stdout, stdout_open, server_vars, validated, snapshot >>

NextPlugins == SetUcwBridge \/ SetDbSink \/ OnEvent \/ PluginCapture

SpecPlugins == InitCapture /\ [][NextPlugins]_vars

\* The number of times callback i was invoked with the event of the last
\* capture.
Invocations(i) ==
    Cardinality({ k \in DOMAIN last_capture.notified :
                    last_capture.notified[k] = << i, last_capture.event_id >> })

\* C27: when the bridge, the sink or a callback raised during a capture, no
\* exception left capture, the event was appended to the log and counted,
\* and every registered callback was invoked with that event exactly once.
C27_PluginFailuresIsolated ==
    last_capture.failed # {} =>
        /\ ~last_capture.raised
        /\ last_capture.appended
        /\ last_capture.counted
        /\ Events[Len(Events)].event_id = last_capture.event_id
        /\ Len(last_capture.notified) = last_capture.event_callbacks
        /\ \A i \in 1..last_capture.event_callbacks : Invocations(i) = 1

\* C27 witness: the bridge, the sink and a callback all raised during one
\* capture made with two callbacks registered, and both were invoked.
C27_Witness ==
    /\ last_capture.failed = {"bridge", "sink", "callback"}
    /\ last_capture.event_callbacks = MaxCallbacks
    /\ last_capture.stored = << >>
    /\ Invocations(1) = 1 /\ Invocations(2) = 1

(***************************************************************************)
(* Capture and order relative to the streams, checked under Spec.          *)
(***************************************************************************)
\* The positions of the inbound events of decoded frames.
FramePositions ==
    { i \in 1..Len(Events) : Events[i].direction = "in" /\ Events[i].error = None }

\* C28: while a decoded frame waits to be, or is being, handled, the last
\* event of the log is its inbound event; and the inbound event of the frame
\* read last is in the log whatever became of its handling.
C28_CapturedBeforeHandled ==
    /\ pc = "handle" =>
          /\ FramePositions # {}
          /\ Len(Events) \in FramePositions
          /\ Events[Len(Events)].raw_bytes = Encode(msg)
          /\ last_line = Encode(msg)
    /\ (nlines > 0 /\ last_line.kind = "json" /\ last_line.f.isdict) =>
          \E i \in FramePositions : Events[i].raw_bytes = last_line

\* C28 witness: the handling of a frame ended with an exception, and the
\* frame's inbound event is in the log.
C28_Witness ==
    /\ last.n > 0 /\ last.escaped
    /\ last_line = Encode(last.msg)
    /\ \E i \in FramePositions : Events[i].raw_bytes = last_line

IsOutbound(e) == e.direction = "out"

\* The bytes of the outbound events, in capture order.
OutboundBytes ==
    [i \in 1..Len(SelectSeq(Events, IsOutbound)) |->
        SelectSeq(Events, IsOutbound)[i].raw_bytes]

\* C29: the output stream holds, in order, the bytes of outbound events and
\* nothing else, each event's bytes at most once; an outbound event without
\* its bytes on the stream is one whose write the stream refused.
C29_OutputIsCapturedFrames ==
    /\ Len(stdout) <= Len(OutboundBytes)
    /\ stdout = SubSeq(OutboundBytes, 1, Len(stdout))
    /\ stdout_open => stdout = OutboundBytes

\* C29 witness: a frame was written, and a later outbound event has no bytes
\* on the stream because the peer had closed it.
C29_Witness ==
    /\ Len(stdout) >= 1
    /\ Len(OutboundBytes) > Len(stdout)

\* C30: the frames read are handled one at a time: a frame is read only when
\* every frame read before has been handled, and every outbound event
\* answers the frame read last before it.
C30_OneFrameAtATime ==
    /\ pc = "read" => Cardinality(FramePositions) = last.n
    /\ pc = "handle" => Cardinality(FramePositions) = last.n + 1
    /\ Cardinality(FramePositions) \in { last.n, last.n + 1 }
    /\ \A i \in 1..Len(Events) :
          IsOutbound(Events[i]) =>
              /\ \E j \in FramePositions : j < i
              /\ \E j \in { Last({ k \in FramePositions \cup {0} : k < i }) } :
                    j > 0 /\ Events[i].request_id = Events[j].request_id

\* C30 witness: two requests with different ids were read and answered, in
\* that order, while the init task had not finished.
C30_Witness ==
    /\ last.n = 2
    /\ Len(stdout) = 2
    /\ stdout[1].f.id # stdout[2].f.id
    /\ ~db_ready

(***************************************************************************)
(* The persistence sink and the lineage state while the init task runs,    *)
(* checked under Spec.                                                     *)
(***************************************************************************)
\* The position in the log of the event with identifier id, 0 when absent.
Position(id) ==
    IF \E k \in 1..Len(Events) : Events[k].event_id = id
    THEN CHOOSE k \in 1..Len(Events) : Events[k].event_id = id
    ELSE 0

\* C31: the events handed to the sink are events of the log, and of any two
\* the one captured first is handed to the sink first.
C31_SinkKeepsCaptureOrder ==
    /\ \A i \in DOMAIN db_rows : Position(db_rows[i]) > 0
    /\ \A i, j \in DOMAIN db_rows :
          i < j => Position(db_rows[i]) < Position(db_rows[j])

\* C31 witness: the sink holds events of both directions of two handled
\* frames.
C31_Witness ==
    /\ last.n = 2
    /\ Len(db_rows) >= 4
    /\ \E i, j \in DOMAIN db_rows :
          /\ Events[Position(db_rows[i])].direction = "in"
          /\ Events[Position(db_rows[j])].direction = "out"

\* C37: a step that changes the turn counter or the lineage map is a step
\* of the frame-handling path (read_message returning or _handle_message
\* finishing) that captured an event; a step of the init task or of the
\* signal task changes neither.
C37_OnlyCaptureTouchesLineage ==
    [][(\/ engine'.turn_counter # engine.turn_counter
        \/ engine'.request_map # engine.request_map) =>
          /\ pc \in {"read", "handle"}
          /\ pc' # pc
          /\ Len(engine'.events) > Len(engine.events)
          /\ db_task' = db_task
          /\ signals' = signals]_vars

\* C37 witness: the init task attached the sink after a request had opened
\* a turn, and counter and map still hold that request.
C37_Witness ==
    /\ db_task = "done"
    /\ engine.db_sink
    /\ engine.turn_counter = 1
    /\ Len(Events) = Len(db_rows) + 1
    /\ DOMAIN engine.request_map = { "1" }

\* C39: a step hands to the sink exactly the events it captures, in order,
\* when the sink was attached before the step, and nothing when it was not:
\* the events captured before are never handed over later.
C39_SinkGetsEventsAfterAttach ==
    [][db_rows' =
          IF engine.db_sink
          THEN db_rows \o [i \in 1..(Len(engine'.events) - Len(engine.events)) |->
                              engine'.events[Len(engine.events) + i].event_id]
          ELSE db_rows]_vars

\* C39 witness: events were captured before the sink was attached and
\* after; the sink holds the later ones only.
C39_Witness ==
    /\ engine.db_sink
    /\ Len(db_rows) >= 2
    /\ Len(Events) >= Len(db_rows) + 2
    /\ \A i \in DOMAIN db_rows :
          db_rows[i] = Events[Len(Events) - Len(db_rows) + i].event_id

(***************************************************************************)
(* Reuse of a correlation id, checked under SpecCapture.                   *)
(***************************************************************************)
\* C38 (as claimed): an outbound event captured after two or more inbound
\* requests with its stringified id has the back-reference and the turn of
\* the most recent of them.
C38_ReusedIdLinksToLatestRequest ==
    \A i \in 1..Len(Events) :
        (/\ Events[i].direction = "out"
         /\ Events[i].request_id # None
         /\ Cardinality(RequestsBefore(i, Events[i])) >= 2) =>
            \E r \in { Last(RequestsBefore(i, Events[i])) } :
                /\ Events[i].parent_protocol_id = Events[r].event_id
                /\ Events[i].turn = Events[r].turn

(***************************************************************************)
(* Protocol errors and lines that are not frames, checked under Spec.      *)
(***************************************************************************)
\* C32 (as claimed): a tools/call request with an id whose params hold no
\* tool name invokes no handler and writes nothing but an INVALID_PARAMS
\* error frame with the request's id, which it does write where the stream
\* takes bytes.
C32_MissingToolNameIsInvalidParams ==
    (HandledToolCall /\ last.msg.name = "") =>
        /\ last.invoked = << >>
        /\ \A i \in 1..Len(last.written) :
               last.written[i] = make_error(GetId(last.msg), INVALID_PARAMS)
        /\ last.open => Len(last.written) = 1

\* The code of the ProtocolError that validate_message or the router raises
\* for the frame m, 0 when neither raises one.
ProtocolErrorCode(m) ==
    The({ IF routed.kind = "protocol_error" THEN routed.code ELSE 0 :
          routed \in { ValidateAndRoute(m, "ok") } })

\* What a finished _handle_message call shows of a protocol error: with a
\* non-null id nothing but the error frame with the code and the id is
\* written, and it is written where the stream takes bytes; without one no
\* write is attempted; no exception leaves the call unless a write failed.
ProtocolErrorSurfaced ==
    (last.n > 0 /\ ProtocolErrorCode(last.msg) # 0) =>
        /\ last.invoked = << >>
        /\ GetId(last.msg) = None =>
               (last.written = << >> /\ last.attempts = 0 /\ ~last.escaped)
        /\ GetId(last.msg) # None =>
               /\ \A i \in 1..Len(last.written) :
                      last.written[i] =
                          make_error(GetId(last.msg), ProtocolErrorCode(last.msg))
               /\ last.open => (Len(last.written) = 1 /\ ~last.escaped)

\* C33: a protocol error is surfaced as above, and the _handle_message call
\* that met it is followed by the next read when the server is running and
\* no write failed.
C33_ProtocolErrorsSurfaced ==
    /\ []ProtocolErrorSurfaced
    /\ [][(/\ last'.n = last.n + 1
            /\ ProtocolErrorCode(msg) # 0
            /\ running
            /\ (stdout_open \/ GetId(msg) = None)) => pc' = "read"]_vars

\* C33 witness: an unknown method with an id was answered with
\* METHOD_NOT_FOUND, then a frame without version tag and without id was
\* dropped, and the loop reads on.
C33_Witness ==
    /\ last.n = 2
    /\ ProtocolErrorCode(last.msg) = INVALID_REQUEST
    /\ GetId(last.msg) = None
    /\ stdout = << Encode(make_error(PyInt("1"), METHOD_NOT_FOUND)) >>
    /\ pc = "read"

\* C34 (as claimed): after a line that decodes to a value that is not a map
\* the capture engine holds an event for it and the loop reads the next
\* line.
C34_NonMapLineIsLocal ==
    (nlines > 0 /\ last_line = Line("json", NonDict)) =>
        /\ pc = "read"
        /\ Len(Events) > 0
        /\ Events[Len(Events)].raw_bytes = last_line

(***************************************************************************)
(* Termination on a signal.  SpecLive is Spec with the steps the event     *)
(* loop takes on its own: run() up to the loop, a _handle_message call     *)
(* that need not wait, the init task, run()'s finally.  A read_message     *)
(* call returns only when the peer sends a line or closes the stream, and  *)
(* signals come from outside: neither is required to happen.               *)
(***************************************************************************)
SpecLive ==
    /\ Spec
    /\ WF_vars(RunStart)
    /\ WF_vars(InitDbBackground)
    /\ WF_vars(HandleMessage)
    /\ WF_vars(Shutdown)

\* A signal has been handled while run() waits in read_message.
SignalledWhileIdle == signals > 0 /\ pc = "read"

\* C40 (as claimed): once a signal has been handled while the server waits
\* for the next input line, run() returns, whether or not the peer sends
\* another line or closes the stream.
C40_SignalEndsRun == SignalledWhileIdle ~> (pc = "stopped")

(***************************************************************************)
(* SpecRouter: a Router with tool modules, whose name sets may overlap,    *)
(* and resource providers registered with it, then called.                 *)
(***************************************************************************)
MaxModules == 3
MaxProviders == 3
MaxRouterCalls == 2

\* The descriptor lists of the modules registered, by name.
ModuleTools == { << "a" >>, << "a", "b" >>, << "b", "c" >> }

\* The handler of the module registered n-th.
HandlerNames == << "h1", "h2", "h3" >>

\* router.register_tools_module(tools_list, handler)
RegisterToolsModule ==
    /\ Len(router_state.tool_handlers) < MaxModules
    /\ \E tools_list \in ModuleTools :
          router_state' =
              register_tools_module(router_state, tools_list,
                                    HandlerNames[Len(router_state.tool_handlers) + 1])
    /\ UNCHANGED << engine, db_rows, callback_log, stdout, stdout_open, calls,
                    capture_raised, server_vars, validated, snapshot, capture_calls,
                    last_capture, router_call >>

\* router.register_resources(resources, handler)
RegisterResources ==
    /\ Len(router_state.resource_handlers) < MaxProviders
    /\ \E handler \in {"content", "none", "raise"} :
          router_state' = register_resources(router_state, handler)
    /\ UNCHANGED << engine, db_rows, callback_log, stdout, stdout_open, calls,
                    capture_raised, server_vars, validated, snapshot, capture_calls,
                    last_capture, router_call >>

\* await router._handle_tools_call({"name": name}) while the handler called
\* does `outcome`
ToolsCall ==
    /\ router_call.n < MaxRouterCalls
    /\ \E name \in {"a", "b", "c", "d"}, outcome \in {"ok", "raise"} :
          router_call' = [n |-> router_call.n + 1, op |-> "tools/call",
                          arg |-> name, outcome |-> outcome, at |-> router_state,
                          routed |-> call_tool(router_state.tool_handlers, name, outcome)]
    /\ UNCHANGED << engine, db_rows, callback_log, stdout, stdout_open, calls,
                    capture_raised, server_vars, validated, snapshot, capture_calls,
                    last_capture, router_state >>

\* await router._handle_resources_read({"uri": uri}), or {} for uri ""
ResourcesRead ==
    /\ router_call.n < MaxRouterCalls
    /\ \E uri \in {"", "ucw://x"} :
          router_call' = [n |-> router_call.n + 1, op |-> "resources/read",
                          arg |-> uri, outcome |-> "ok", at |-> router_state,
                          routed |-> handle_resources_read(router_state.resource_handlers, uri)]
    /\ UNCHANGED << engine, db_rows, callback_log, stdout, stdout_open, calls,
                    capture_raised, server_vars, validated, snapshot, capture_calls,
                    last_capture, router_state >>

NextRouter == RegisterToolsModule \/ RegisterResources \/ ToolsCall \/ ResourcesRead

SpecRouter == InitCapture /\ [][NextRouter]_vars

\* The positions of the providers, registered when the call was made, that
\* resolve the URI.
Resolvers ==
    { i \in 1..Len(router_call.at.resource_handlers) :
        router_call.at.resource_handlers[i] = "content" }

\* C35 (as claimed): a resources/read for a URI that a registered provider
\* resolves returns content, whatever the providers registered before it
\* do; and the call fails with INVALID_PARAMS if and only if the URI is
\* missing or no registered provider resolves it.
C35_ResourceReadResolves ==
    router_call.op = "resources/read" =>
        /\ (router_call.arg # "" /\ Resolvers # {}) =>
               router_call.routed.kind = "result"
        /\ (/\ router_call.routed.kind = "protocol_error"
            /\ router_call.routed.code = INVALID_PARAMS)
               <=> (router_call.arg = "" \/ Resolvers = {})

\* The positions of the modules, registered when the call was made, whose
\* names include the tool called.
Registrants ==
    { i \in 1..Len(router_call.at.tool_handlers) :
        router_call.arg \in router_call.at.tool_handlers[i].names }

\* C36: a tools/call for a name some module registered invokes the handler
\* of the first such module, once, and no other handler, whether that
\* handler returns or raises; for a name no module registered it invokes
\* none.
C36_FirstRegistrantOnly ==
    router_call.op = "tools/call" =>
        IF Registrants = {} THEN router_call.routed.invoked = << >>
        ELSE router_call.routed.invoked =
                 << HandlerNames[CHOOSE i \in Registrants : \A j \in Registrants : i <= j] >>

\* C36 witness: a name registered by the second and the third module was
\* called, the handler of the second raised, and it alone was invoked.
C36_Witness ==
    /\ router_call.op = "tools/call"
    /\ router_call.outcome = "raise"
    /\ Registrants = {2, 3}
    /\ router_call.routed.invoked = << "h2" >>
    /\ router_call.routed.payload = "tool_error"

====
